---- MODULE Spec2Model ----
(***************************************************************************)
(* A model of the JSON-RPC client of src/src/ujrpc/client.py: the Client    *)
(* facade with its lazily (re)connected socket, the Request envelope        *)
(* builder with its binary payload packing, the raw / HTTP framing and the  *)
(* Response wrapper.                                                        *)
(*                                                                          *)
(* Python values are records  [t, n, s, shape, b, format] :                 *)
(*   t = "int"      n the integer                                           *)
(*   t = "str"      s the text, a sequence of Unicode code points           *)
(*   t = "bytes"    b the bytes (0..255)                                    *)
(*   t = "ndarray"  shape the dimensions, b the elements (uint8)            *)
(*   t = "image"    format the PIL format tag ("" = None), shape the size,  *)
(*                  b the pixels                                            *)
(* Text and bytes that travel are sequences of units  [k, s, n] :           *)
(*   k = "lit"   a run of ASCII characters (the TLA+ string s)              *)
(*   k = "cp"    one character, code point n                                *)
(*   k = "esc"   the JSON escape \uXXXX of code point n (ASCII text)        *)
(*   k = "num"   the decimal digits of the integer n                        *)
(*   k = "byte"  one raw byte n                                             *)
(*   k = "doc"   one complete JSON document of a reply (named by s)         *)
(***************************************************************************)
EXTENDS Integers, Sequences, FiniteSets, TLC

\* ------------------------------------------------------------------ bounds
\* calls made on one Client
MaxCalls == 3
\* positional arguments of one call
MaxArgs == 1
\* length of the byte buffers, arrays and pixel rows the codec is run on
MaxBytes == 2

\* ------------------------------------------------------- program constants
\* _recvall(sock, buffer_size=4096)
buffer_size == 4096
\* random.randint(1, 2**16)
MaxId == 65536

\* ----------------------------------------------------------- Python values
IntV(n) == [t |-> "int", n |-> n, s |-> <<>>, shape |-> <<>>, b |-> <<>>, format |-> ""]
StrV(s) == [t |-> "str", n |-> 0, s |-> s, shape |-> <<>>, b |-> <<>>, format |-> ""]
BytesV(b) == [t |-> "bytes", n |-> 0, s |-> <<>>, shape |-> <<>>, b |-> b, format |-> ""]
NdV(shape, b) == [t |-> "ndarray", n |-> 0, s |-> <<>>, shape |-> shape, b |-> b, format |-> ""]
ImgV(format, size, b) == [t |-> "image", n |-> 0, s |-> <<>>, shape |-> size, b |-> b, format |-> format]
\* None, and the marker of a raised exception in a result
NoneV == [t |-> "None", n |-> 0, s |-> <<>>, shape |-> <<>>, b |-> <<>>, format |-> ""]

\* ------------------------------------------------------------------- units
Lit(s) == [k |-> "lit", s |-> s, n |-> 0]
Cp(n) == [k |-> "cp", s |-> "", n |-> n]
Esc(n) == [k |-> "esc", s |-> "", n |-> n]
Num(n) == [k |-> "num", s |-> "", n |-> n]
ByteU(n) == [k |-> "byte", s |-> "", n |-> n]
Doc(d) == [k |-> "doc", s |-> d, n |-> 0]

RECURSIVE Digits(_)
\* number of decimal digits of n >= 0, as "%i" prints it
Digits(n) == IF n < 10 THEN 1 ELSE 1 + Digits(n \div 10)

\* number of characters of one unit of a str
CharLen(u) ==
    CASE u.k = "lit" -> Len(u.s)
      [] u.k = "cp" -> 1
      [] u.k = "esc" -> IF u.n < 65536 THEN 6 ELSE 12
      [] u.k = "num" -> Digits(u.n)
      [] OTHER -> 1

RECURSIVE StrLen(_)
\* len(text) of a str: its number of characters
StrLen(text) == IF text = <<>> THEN 0 ELSE CharLen(Head(text)) + StrLen(Tail(text))

\* str.encode() of one character: its UTF-8 bytes
Utf8(n) ==
    IF n < 128 THEN <<Cp(n)>>
    ELSE IF n < 2048 THEN <<ByteU(192 + (n \div 64)), ByteU(128 + (n % 64))>>
    ELSE IF n < 65536 THEN
        <<ByteU(224 + (n \div 4096)), ByteU(128 + ((n \div 64) % 64)), ByteU(128 + (n % 64))>>
    ELSE <<ByteU(240 + (n \div 262144)), ByteU(128 + ((n \div 4096) % 64)),
           ByteU(128 + ((n \div 64) % 64)), ByteU(128 + (n % 64))>>

RECURSIVE Encode(_)
\* request.encode(): the UTF-8 bytes of a str (ASCII units stand for themselves)
Encode(text) ==
    IF text = <<>> THEN <<>>
    ELSE (IF Head(text).k = "cp" THEN Utf8(Head(text).n) ELSE <<Head(text)>>) \o Encode(Tail(text))

\* number of bytes of one unit of a byte string
ByteLenU(u) ==
    CASE u.k = "lit" -> Len(u.s)
      [] u.k = "esc" -> IF u.n < 65536 THEN 6 ELSE 12
      [] u.k = "num" -> Digits(u.n)
      [] OTHER -> 1

RECURSIVE ByteLen(_)
\* len(data) of a byte string
ByteLen(data) == IF data = <<>> THEN 0 ELSE ByteLenU(Head(data)) + ByteLen(Tail(data))

\* ------------------------------------------------------------------ base64
\* the base64 alphabet: index 0..63 -> ASCII code
B64Char(i) ==
    IF i < 26 THEN 65 + i
    ELSE IF i < 52 THEN 97 + (i - 26)
    ELSE IF i < 62 THEN 48 + (i - 52)
    ELSE IF i = 62 THEN 43 ELSE 47

\* ASCII code -> index 0..63, or 64 for a character outside the alphabet
B64Index(c) ==
    IF c >= 65 /\ c <= 90 THEN c - 65
    ELSE IF c >= 97 /\ c <= 122 THEN c - 97 + 26
    ELSE IF c >= 48 /\ c <= 57 THEN c - 48 + 52
    ELSE IF c = 43 THEN 62
    ELSE IF c = 47 THEN 63 ELSE 64

B64Pad == 61

RECURSIVE b64encode(_)
\* base64.b64encode(b).decode(): the text, as ASCII code points
b64encode(b) ==
    IF Len(b) = 0 THEN <<>>
    ELSE IF Len(b) = 1 THEN
        <<B64Char(b[1] \div 4), B64Char((b[1] % 4) * 16), B64Pad, B64Pad>>
    ELSE IF Len(b) = 2 THEN
        <<B64Char(b[1] \div 4), B64Char((b[1] % 4) * 16 + (b[2] \div 16)),
          B64Char((b[2] % 16) * 4), B64Pad>>
    ELSE
        <<B64Char(b[1] \div 4), B64Char((b[1] % 4) * 16 + (b[2] \div 16)),
          B64Char((b[2] % 16) * 4 + (b[3] \div 64)), B64Char(b[3] % 64)>>
        \o b64encode(SubSeq(b, 4, Len(b)))

RECURSIVE a2b_base64(_, _, _, _, _, _)
\* binascii.a2b_base64 in non-strict mode: characters outside the alphabet are
\* skipped, padding ends the data once a quad is complete, and a quad left
\* incomplete at the end is an error
a2b_base64(s, i, quad, left, pads, out) ==
    IF i > Len(s) THEN [ok |-> quad = 0, b |-> out]
    ELSE IF s[i] = B64Pad THEN
        IF quad >= 2 /\ quad + pads + 1 >= 4 THEN [ok |-> TRUE, b |-> out]
        ELSE a2b_base64(s, i + 1, quad, left, IF quad >= 2 THEN pads + 1 ELSE pads, out)
    ELSE IF B64Index(s[i]) = 64 THEN a2b_base64(s, i + 1, quad, left, pads, out)
    ELSE
        LET c == B64Index(s[i]) IN
        CASE quad = 0 -> a2b_base64(s, i + 1, 1, c, 0, out)
          [] quad = 1 ->
              a2b_base64(s, i + 1, 2, c % 16, 0, Append(out, left * 4 + (c \div 16)))
          [] quad = 2 ->
              a2b_base64(s, i + 1, 3, c % 4, 0, Append(out, left * 16 + (c \div 4)))
          [] OTHER -> a2b_base64(s, i + 1, 0, 0, 0, Append(out, left * 64 + c))

\* base64.b64decode(s) of a str or a bytes-like object, given as its codes
b64decode(s) == a2b_base64(s, 1, 0, 0, 0, <<>>)

\* ---------------------------------------------------- array and image codecs
RECURSIVE Product(_)
Product(shape) == IF shape = <<>> THEN 1 ELSE Head(shape) * Product(Tail(shape))

\* the magic byte that opens a serialized array
NpyMagic == 147

\* np.save(buf, array); buf.getvalue(): magic, the shape, then the elements
np_save(array) == <<NpyMagic, Len(array.shape)>> \o array.shape \o array.b

\* np.load(buf, allow_pickle=True): the array, or a failure on bytes that are
\* no serialized array
np_load(b) ==
    IF Len(b) < 2 \/ b[1] # NpyMagic \/ Len(b) < 2 + b[2] THEN [ok |-> FALSE, v |-> NoneV]
    ELSE LET shape == SubSeq(b, 3, 2 + b[2])
             elems == SubSeq(b, 3 + b[2], Len(b))
         IN IF Len(elems) # Product(shape) THEN [ok |-> FALSE, v |-> NoneV]
            ELSE [ok |-> TRUE, v |-> NdV(shape, elems)]

\* the first byte of a serialized image, per format ('I' of TIFF, \x89 of PNG)
FormatMagic(format) == IF format \in {"tiff", "TIFF"} THEN 73 ELSE 137

\* image.save(buf, format, compression='raw', compression_level=0)
image_save(image, format) == <<FormatMagic(format)>> \o image.shape \o image.b

\* Image.open(buf): the image, its format read from the data
image_open(b) ==
    IF Len(b) < 3 \/ b[1] \notin {73, 137} THEN [ok |-> FALSE, v |-> NoneV]
    ELSE LET size == SubSeq(b, 2, 3)
             pixels == SubSeq(b, 4, Len(b))
         IN IF Len(pixels) # Product(size) THEN [ok |-> FALSE, v |-> NoneV]
            ELSE [ok |-> TRUE, v |-> ImgV(IF b[1] = 73 THEN "TIFF" ELSE "PNG", size, pixels)]

\* ------------------------------------------------------------ Request
\* isinstance(req['params'][k], np.ndarray) / isinstance(..., Image.Image)
IsArray(v) == v.t = "ndarray"
IsImage(v) == v.t = "image"

\* Request._pack_numpy
_pack_numpy(array) == b64encode(np_save(array))

\* Request._pack_pillow: the text; the format tag written is 'tiff' when the
\* image carries none
_pack_pillow(image) ==
    b64encode(image_save(image, IF image.format = "" THEN "tiff" ELSE image.format))

\* the caller's value object after pack has looked at it: _pack_pillow sets
\* image.format on the image it is given
Touched(v) == IF IsImage(v) /\ v.format = "" THEN [v EXCEPT !.format = "tiff"] ELSE v

\* the value pack stores in place of req['params'][k]
PackItem(v) ==
    IF IsArray(v) THEN StrV(_pack_numpy(v))
    ELSE IF IsImage(v) THEN StrV(_pack_pillow(v))
    ELSE v

\* the keys pack assigns to: those holding an array or an image
PackedKeys(items) == {k \in DOMAIN items : IsArray(items[k]) \/ IsImage(items[k])}

\* Request.pack(req): req is changed in place and returned; item assignment
\* into a tuple raises TypeError at the first array or image
pack(req) ==
    LET items == req.params.items IN
    IF req.params.type = "tuple" /\ PackedKeys(items) # {}
    THEN [exc |-> "TypeError", req |-> req]
    ELSE [exc |-> "",
          req |-> [req EXCEPT !.params.items = [k \in DOMAIN items |-> PackItem(items[k])]]]

\* Request(json): self.data = json; self.packed = self.pack(json). pack
\* changes json itself, so data and packed name the same, changed, object
Request(json) ==
    LET p == pack(json) IN [exc |-> p.exc, data |-> p.req, packed |-> p.req]

\* what the caller still holds of the params it passed, after Request(json):
\* the container itself when it passed one (direct call), else its values
CallerParams(entry, params) ==
    LET items == params.items
        first == IF PackedKeys(items) = {} THEN 0
                 ELSE CHOOSE k \in PackedKeys(items) : \A j \in PackedKeys(items) : k <= j
    IN IF params.type = "tuple"
       THEN [params EXCEPT !.items =
                [k \in DOMAIN items |-> IF k = first THEN Touched(items[k]) ELSE items[k]]]
       ELSE IF entry = "direct"
       THEN [params EXCEPT !.items = [k \in DOMAIN items |-> PackItem(items[k])]]
       ELSE [params EXCEPT !.items = [k \in DOMAIN items |-> Touched(items[k])]]

\* -------------------------------------------------------------- json.dumps
\* mutant: ensure_ascii=False, characters above ASCII are written as they are
EscapeChar_Raw(c) ==
    IF c = 34 THEN Lit("\\\"")
    ELSE IF c = 92 THEN Lit("\\\\")
    ELSE IF c < 32 THEN Esc(c)
    ELSE Cp(c)

\* one character of a string under ensure_ascii=True
EscapeChar(c) ==
    IF c = 34 THEN Lit("\\\"")
    ELSE IF c = 92 THEN Lit("\\\\")
    ELSE IF c = 10 THEN Lit("\\n")
    ELSE IF c = 13 THEN Lit("\\r")
    ELSE IF c = 9 THEN Lit("\\t")
    ELSE IF c = 8 THEN Lit("\\b")
    ELSE IF c = 12 THEN Lit("\\f")
    ELSE IF c < 32 \/ c > 126 THEN Esc(c)
    ELSE Cp(c)

DumpStr(s) == <<Lit("\"")>> \o [i \in 1..Len(s) |-> EscapeChar(s[i])] \o <<Lit("\"")>>

\* json.dumps can serialize integers and strings; bytes, arrays and images
\* raise TypeError
Serializable(v) == v.t \in {"int", "str"}

DumpValue(v) == IF v.t = "int" THEN <<Num(v.n)>> ELSE DumpStr(v.s)

\* the order in which a dict of keyword arguments lists its keys
KwOrder == <<"x", "y">>

RECURSIVE DumpSeq(_, _)
\* the items of a list or tuple from index i on, separated by ", "
DumpSeq(items, i) ==
    IF i > Len(items) THEN <<>>
    ELSE (IF i > 1 THEN <<Lit(", ")>> ELSE <<>>) \o DumpValue(items[i]) \o DumpSeq(items, i + 1)

RECURSIVE DumpDict(_, _, _)
\* the items of a dict, keys[i..] in order, separated by ", "
DumpDict(items, keys, i) ==
    IF i > Len(keys) THEN <<>>
    ELSE (IF i > 1 THEN <<Lit(", ")>> ELSE <<>>)
         \o <<Lit("\""), Lit(keys[i]), Lit("\": ")>> \o DumpValue(items[keys[i]])
         \o DumpDict(items, keys, i + 1)

DumpParams(params) ==
    IF params.type = "dict"
    THEN LET In(k) == k \in DOMAIN params.items
         IN <<Lit("{")>> \o DumpDict(params.items, SelectSeq(KwOrder, In), 1) \o <<Lit("}")>>
    ELSE <<Lit("[")>> \o DumpSeq(params.items, 1) \o <<Lit("]")>>

\* json.dumps(req_obj.packed): the text of the envelope, or TypeError
json_dumps(env) ==
    IF \E k \in DOMAIN env.params.items : ~Serializable(env.params.items[k])
    THEN [exc |-> "TypeError", text |-> <<>>]
    ELSE [exc |-> "",
          text |-> <<Lit("{\"method\": ")>> \o DumpStr(env.method)
                   \o <<Lit(", \"params\": ")>> \o DumpParams(env.params)
                   \o <<Lit(", \"jsonrpc\": \"2.0\", \"id\": "), Num(env.id), Lit("}")>>]

\* ----------------------------------------------------------------- framing
\* self.http_template % n, for the default uri and port
http_template(n) ==
    <<Lit("POST / HTTP/1.1\r\nHost: 127.0.0.1:8545\r\nUser-Agent: py-ujrpc\r\nAccept: */*\r\nConnection: keep-alive\r\nContent-Length: "),
      Num(n),
      Lit("\r\nContent-Type: application/json\r\n\r\n")>>

\* the text _send builds: the envelope, under its HTTP header in HTTP mode
Frame(http, text) == IF http THEN http_template(StrLen(text)) \o text ELSE text

\* a line end, and the blank-line separator b'\r\n\r\n'
CRLF == Lit("\r\n")
Separator == <<CRLF, CRLF>>

RECURSIVE IndexFrom(_, _, _)
\* response_bytes.index(sep): the first place sep occurs at, 0 when nowhere
IndexFrom(b, sep, i) ==
    IF i + Len(sep) - 1 > Len(b) THEN 0
    ELSE IF SubSeq(b, i, i + Len(sep) - 1) = sep THEN i
    ELSE IndexFrom(b, sep, i + 1)

Index(b, sep) == IndexFrom(b, sep, 1)

\* JSON whitespace
IsWs(u) == u \in {CRLF, Lit(" ")}

RECURSIVE LStrip(_)
LStrip(b) == IF b # <<>> /\ IsWs(Head(b)) THEN LStrip(Tail(b)) ELSE b

RECURSIVE RStrip(_)
RStrip(b) == IF b # <<>> /\ IsWs(b[Len(b)]) THEN RStrip(SubSeq(b, 1, Len(b) - 1)) ELSE b

\* "bad params" and "2.0"
BadParams == <<98, 97, 100, 32, 112, 97, 114, 97, 109, 115>>
V20 == <<50, 46, 48>>

\* the array a server returns in document "RA"
SampleArray == NdV(<<2, 2>>, <<1, 2, 3, 4>>)

\* the mapping a JSON document of a reply decodes to
DocValue(d) ==
    CASE d = "R5" -> [jsonrpc |-> StrV(V20), id |-> IntV(1), result |-> IntV(5)]
      [] d = "EB" -> [jsonrpc |-> StrV(V20), id |-> IntV(1), error |-> StrV(BadParams)]
      [] d = "RA" -> [jsonrpc |-> StrV(V20), id |-> IntV(1),
                      result |-> StrV(_pack_numpy(SampleArray))]
      [] OTHER -> [jsonrpc |-> StrV(V20), id |-> IntV(1)]

\* json.loads(b): surrounding whitespace is skipped and exactly one document
\* must remain
json_loads(b) ==
    LET body == RStrip(LStrip(b)) IN
    IF Len(body) = 1 /\ body[1].k = "doc"
    THEN [exc |-> "", v |-> DocValue(body[1].s)]
    ELSE [exc |-> "JSONDecodeError", v |-> <<>>]

RECURSIVE LastIndexFrom(_, _, _)
LastIndexFrom(b, sep, i) ==
    IF i < 1 THEN 0
    ELSE IF SubSeq(b, i, i + Len(sep) - 1) = sep THEN i
    ELSE LastIndexFrom(b, sep, i - 1)

\* mutant: rindex, the last separator instead of the first
BodyStart_Last(b) == LastIndexFrom(b, Separator, Len(b) - Len(Separator) + 1)

\* mutant: a response without the separator is taken whole as the body
BodyStart_Whole(b) == IF Index(b, Separator) = 0 THEN 1 ELSE Index(b, Separator)

\* where _recv starts the body at: response_bytes[response_bytes.index(sep):]
BodyStart(b) == Index(b, Separator)

\* the parse of Client._recv
Parse(http, b) ==
    IF http
    THEN IF BodyStart(b) = 0 THEN [exc |-> "ValueError", v |-> <<>>]
         ELSE json_loads(SubSeq(b, BodyStart(b), Len(b)))
    ELSE json_loads(b)

\* ---------------------------------------------------------------- Response
NoResult == [exc |-> "", arg |-> NoneV, v |-> NoneV]

\* mutant: looks for 'result' where it should look for 'error'
raise_error_OnResult(data) ==
    IF "result" \in DOMAIN data
    THEN [exc |-> "RuntimeError", arg |-> data.result, v |-> NoneV]
    ELSE NoResult

\* mutant: raises without the descriptor
raise_error_NoPayload(data) ==
    IF "error" \in DOMAIN data
    THEN [exc |-> "RuntimeError", arg |-> NoneV, v |-> NoneV]
    ELSE NoResult

\* Response.raise_error
raise_error(data) ==
    IF "error" \in DOMAIN data
    THEN [exc |-> "RuntimeError", arg |-> data.error, v |-> NoneV]
    ELSE NoResult

\* Response.raise_or_get
raise_or_get(data) ==
    LET e == raise_error(data) IN
    IF e.exc # "" THEN e
    ELSE IF "result" \notin DOMAIN data THEN [exc |-> "KeyError", arg |-> NoneV, v |-> NoneV]
    ELSE [exc |-> "", arg |-> NoneV, v |-> data.result]

\* Response.as_bytes
as_bytes(data) ==
    LET r == raise_or_get(data) IN
    IF r.exc # "" THEN r
    ELSE IF r.v.t \notin {"str", "bytes"} THEN [exc |-> "TypeError", arg |-> NoneV, v |-> NoneV]
    ELSE IF r.v.t = "str" /\ \E i \in 1..Len(r.v.s) : r.v.s[i] > 127
    THEN [exc |-> "ValueError", arg |-> NoneV, v |-> NoneV]
    ELSE LET d == b64decode(IF r.v.t = "str" THEN r.v.s ELSE r.v.b) IN
         IF d.ok THEN [exc |-> "", arg |-> NoneV, v |-> BytesV(d.b)]
         ELSE [exc |-> "binascii.Error", arg |-> NoneV, v |-> NoneV]

\* Response.as_numpy
as_numpy(data) ==
    LET r == as_bytes(data) IN
    IF r.exc # "" THEN r
    ELSE LET a == np_load(r.v.b) IN
         IF a.ok THEN [exc |-> "", arg |-> NoneV, v |-> a.v]
         ELSE [exc |-> "ValueError", arg |-> NoneV, v |-> NoneV]

\* Response.as_image
as_image(data) ==
    LET r == as_bytes(data) IN
    IF r.exc # "" THEN r
    ELSE LET a == image_open(r.v.b) IN
         IF a.ok THEN [exc |-> "", arg |-> NoneV, v |-> a.v]
         ELSE [exc |-> "UnidentifiedImageError", arg |-> NoneV, v |-> NoneV]

\* ------------------------------------------------------------------- state
VARIABLES
    use_http,   \* Client.use_http
    sock,       \* Client.sock: 0 is None, else the number of the socket held
    nsock,      \* sockets connected so far by _make_tcp_socket
    nclosed,    \* sockets the Client has closed so far
    peer,       \* the peer of the held socket: "none", "open", "closed" (it sent
                \* FIN) or "reset" (a connection error is pending on the socket)
    rbuf,       \* bytes received on the held socket and not yet read
    peerOut,    \* bytes of the peer's reply not yet delivered
    srv,        \* the peer's view: "idle", "asked" (a request arrived), "replied"
    pc,         \* where the caller is: "idle", inside a call ("probe", "connect",
                \* "send", "recv"), or after it ("returned", "raised")
    ncalls,     \* calls made so far
    call,       \* the locals and the trace of the current call
    req,        \* the Request object _send built
    response,   \* Response.data of the Response the call returned
    res,        \* what the last Response method called did
    prev,       \* the previous call: the socket it sent on, how it ended
    cpc, cv, cpacked, cout  \* the codec run: its step, the value, its packed
                \* form and what decoding gave

netVars == <<sock, nsock, nclosed, peer, rbuf, peerOut, srv>>
callVars == <<pc, ncalls, call, req, response, res, prev>>
codecVars == <<cpc, cv, cpacked, cout>>
vars == <<use_http, netVars, callVars, codecVars>>

\* ------------------------------------------------------------------ inputs
\* method names: "f" and "é"
Names == {<<102>>, <<233>>}

\* a"é€ and an emoji: ASCII, an escaped quote, two-, three- and four-byte characters
SampleText == <<97, 34, 233, 8364, 128512>>

\* the values a caller passes as parameters
ParamValues ==
    {IntV(5), StrV(SampleText), BytesV(<<0, 255>>), NdV(<<2>>, <<1, 2>>), ImgV("", <<1, 1>>, <<7>>)}

\* the names of keyword arguments
KwNames == {"x"}

RECURSIVE SeqsUpTo(_, _)
\* the sequences over S of length at most n
SeqsUpTo(S, n) ==
    IF n = 0 THEN {<<>>}
    ELSE LET shorter == SeqsUpTo(S, n - 1)
         IN shorter \cup {Append(q, x) : q \in {r \in shorter : Len(r) = n - 1}, x \in S}

ArgsSet == SeqsUpTo(ParamValues, MaxArgs)
KwargsSet == UNION {[K -> ParamValues] : K \in SUBSET KwNames}

\* the ids random.randint(1, 2**16) is sampled at: both ends of its range
IdSamples == {1, MaxId}

\* the calls the connection life cycle is run on: no argument, mixed
\* arguments, a positional array, keyword bytes
SessionCalls ==
    {[args |-> <<>>, kwargs |-> <<>>],
     [args |-> <<IntV(5)>>, kwargs |-> [x |-> IntV(5)]],
     [args |-> <<NdV(<<2>>, <<1, 2>>)>>, kwargs |-> <<>>],
     [args |-> <<>>, kwargs |-> [x |-> BytesV(<<0, 255>>)]]}

\* how many of n offered bytes one send() may accept: one byte, or all
SendAccepts(n) == {1, n}

Status == Lit("HTTP/1.1 200 OK")
Header == Lit("Content-Type: application/json")

\* the replies of a server that answers every request with the result 5, in
\* the framing of the Client's mode
SessionReplies(http) == IF http THEN {<<Status, CRLF, CRLF, Doc("R5")>>} ELSE {<<Doc("R5")>>}

\* what a server may answer one request with: results and errors, with and
\* without an HTTP head, a head without the blank line, a body followed by a
\* second blank line, a body that is no JSON
Replies ==
    {<<Status, CRLF, Header, CRLF, CRLF, Doc("R5")>>,
     <<Status, CRLF, CRLF, Doc("EB")>>,
     <<Status, CRLF, CRLF, Doc("RA")>>,
     <<Status, CRLF, CRLF, Doc("R5"), CRLF, CRLF>>,
     <<Status, CRLF, CRLF, Doc("EB"), CRLF, CRLF, Doc("R5")>>,
     <<Status, CRLF, Doc("R5")>>,
     <<Status, CRLF, CRLF, Lit("oops")>>,
     <<Doc("R5")>>,
     <<Doc("EB")>>,
     <<Doc("RA")>>,
     <<Lit("oops")>>}

\* ------------------------------------------------------------ initial state
NoParams == [type |-> "", items |-> <<>>]
NoProbe == [closed |-> FALSE, peer |-> "", before |-> <<>>, after |-> <<>>]
NoReq == [exc |-> "", data |-> <<>>, packed |-> <<>>]
NoRes == [method |-> "", exc |-> "", arg |-> NoneV, v |-> NoneV]
NoCall ==
    [entry |-> "", name |-> <<>>, nargs |-> 0, nkwargs |-> 0, orig |-> NoParams,
     callerParams |-> NoParams, id |-> 0, passedId |-> 0, exc |-> "", at |-> "",
     nprobe |-> 0, nconnect |-> 0, nsend |-> 0, sockBefore |-> 0, sendSock |-> 0,
     probe |-> NoProbe, peerAtSend |-> "", request |-> <<>>, wire |-> <<>>,
     sent |-> 0, data |-> <<>>]

NoPrev == [sendSock |-> 0, ended |-> "", id |-> 0, eofSock |-> 0]

CodecIdle == /\ cpc = "off" /\ cv = NoneV /\ cpacked = NoneV /\ cout = NoRes

\* Client.__init__: no socket yet
Init ==
    /\ use_http \in BOOLEAN
    /\ sock = 0 /\ nsock = 0 /\ nclosed = 0 /\ peer = "none" /\ rbuf = <<>> /\ peerOut = <<>>
    /\ srv = "idle"
    /\ pc = "idle" /\ ncalls = 0 /\ call = NoCall /\ req = NoReq
    /\ response = <<>> /\ res = NoRes
    /\ prev = NoPrev
    /\ CodecIdle

\* ------------------------------------------------------------------ a call
\* the caller is between calls and may make one more
CanCall == pc \in {"idle", "returned", "raised"} /\ ncalls < MaxCalls

\* mutant: a failed send is caught and the call reconnects and sends again
OnFailure_Retry(at) == IF at = "send" THEN "connect" ELSE "raised"

\* where a call goes when its step `at` raises: _send, _recv and __call__ have
\* no try/except, the exception leaves the call
OnFailure(at) == "raised"

\* mutant: the check of mixed arguments is gone
AssertFails_Stripped(args, kwargs) == FALSE

\* the assert of __getattr__'s call: positional arguments exclude keyword ones
AssertFails(args, kwargs) == Len(args) # 0 /\ DOMAIN kwargs # {}

\* mutant: an id the envelope already carries is kept
AssignId_Keep(json_data, id) ==
    IF json_data.id # 0 THEN json_data ELSE [json_data EXCEPT !.id = id]

\* json_data['id'] = random.randint(1, 2**16), id being the number drawn
AssignId(json_data, id) == [json_data EXCEPT !.id = id]

\* Client.__call__(jsonrpc) up to the first I/O: _send assigns the id, builds
\* the Request, serializes its packed envelope and frames it
Enter(entry, json_data, id, nargs, nkwargs) ==
        LET env == AssignId(json_data, id)
            r == Request(env)
            d == IF r.exc = "" THEN json_dumps(r.packed) ELSE [exc |-> "", text |-> <<>>]
            base == [NoCall EXCEPT !.entry = entry, !.name = json_data.method,
                                   !.nargs = nargs, !.nkwargs = nkwargs,
                                   !.orig = json_data.params,
                                   !.callerParams = CallerParams(entry, json_data.params),
                                   !.id = id, !.passedId = json_data.id,
                                   !.sockBefore = sock]
        IN /\ req' = IF r.exc = "" THEN r ELSE NoReq
           /\ IF r.exc # ""
              THEN /\ call' = [base EXCEPT !.exc = r.exc, !.at = "pack"]
                   /\ pc' = OnFailure("pack")
              ELSE IF d.exc # ""
              THEN /\ call' = [base EXCEPT !.exc = d.exc, !.at = "dumps"]
                   /\ pc' = OnFailure("dumps")
              ELSE /\ call' = [base EXCEPT !.request = Frame(use_http, d.text)]
                   /\ pc' = "probe"

\* what every new call resets
NewCall ==
    /\ ncalls' = ncalls + 1
    /\ response' = <<>>
    /\ res' = NoRes
    /\ prev' = [sendSock |-> IF call.nsend > 0 THEN call.sendSock ELSE prev.sendSock,
                ended |-> pc, id |-> call.id,
                eofSock |-> IF pc = "returned" \/ (pc = "raised" /\ call.at = "parse")
                            THEN call.sendSock ELSE prev.eofSock]

\* client.<name>(*args, **kwargs): Client.__getattr__'s call
Getattr(name, args, kwargs, id) ==
    /\ CanCall
    /\ NewCall
    /\ IF AssertFails(args, kwargs)
       THEN /\ call' = [NoCall EXCEPT !.entry = "getattr", !.name = name,
                                      !.nargs = Len(args),
                                      !.nkwargs = Cardinality(DOMAIN kwargs),
                                      !.exc = "AssertionError", !.at = "assert",
                                      !.sockBefore = sock]
            /\ pc' = "raised"
            /\ req' = NoReq
       ELSE Enter("getattr",
                  [method |-> name,
                   params |-> IF Len(args) # 0 THEN [type |-> "tuple", items |-> args]
                              ELSE [type |-> "dict", items |-> kwargs],
                   jsonrpc |-> "2.0", id |-> 0], id, Len(args), Cardinality(DOMAIN kwargs))
    /\ UNCHANGED <<use_http, netVars, codecVars>>

\* client(jsonrpc): Client.__call__ on an envelope the caller built, its params
\* a list or a dict, with or without an id of its own
DirectCall(name, ptype, items, id0, id) ==
    /\ CanCall
    /\ NewCall
    /\ Enter("direct", [method |-> name, params |-> [type |-> ptype, items |-> items],
                        jsonrpc |-> "2.0", id |-> id0], id, 0, 0)
    /\ UNCHANGED <<use_http, netVars, codecVars>>

\* ------------------------------------------------------------- the socket
\* mutant: the probe reads without MSG_PEEK
Peeked_Consumed(buf) == Tail(buf)

\* sock.recv(1, MSG_PEEK | MSG_DONTWAIT): what is left in the receive buffer
Peeked(buf) == buf

\* mutant: a peek that returns b'' is not looked at
_socket_is_closed_NoEof(s, p, buf) ==
    IF s = 0 THEN [closed |-> TRUE, exc |-> "", buf |-> buf]
    ELSE IF p = "reset" THEN [closed |-> FALSE, exc |-> "ConnectionResetError", buf |-> buf]
    ELSE [closed |-> FALSE, exc |-> "", buf |-> buf]

\* mutant: every error of the peek is swallowed and read as closed
_socket_is_closed_Swallow(s, p, buf) ==
    IF s = 0 \/ p = "reset" THEN [closed |-> TRUE, exc |-> "", buf |-> buf]
    ELSE IF buf # <<>> THEN [closed |-> FALSE, exc |-> "", buf |-> buf]
    ELSE [closed |-> p = "closed", exc |-> "", buf |-> buf]

\* _socket_is_closed(sock), on a socket whose peer is in state p and whose
\* receive buffer holds buf
_socket_is_closed(s, p, buf) ==
    IF s = 0 THEN [closed |-> TRUE, exc |-> "", buf |-> buf]
    ELSE IF p = "reset" THEN [closed |-> FALSE, exc |-> "ConnectionResetError", buf |-> buf]
    ELSE IF buf # <<>> THEN [closed |-> FALSE, exc |-> "", buf |-> Peeked(buf)]
    ELSE IF p = "closed" THEN [closed |-> TRUE, exc |-> "", buf |-> buf]
    ELSE [closed |-> FALSE, exc |-> "", buf |-> buf]

\* a connection error, once reported, is cleared: later reads see end of stream
Reported(p) == IF p = "reset" THEN "closed" ELSE p

\* _send line 147: the liveness probe
Probe ==
    /\ pc = "probe"
    /\ LET r == _socket_is_closed(sock, peer, rbuf)
           c == [call EXCEPT !.nprobe = @ + 1,
                             !.probe = [closed |-> r.closed, peer |-> peer,
                                        before |-> rbuf, after |-> r.buf]]
       IN /\ rbuf' = r.buf
          /\ IF r.exc # ""
             THEN /\ call' = [c EXCEPT !.exc = r.exc, !.at = "probe"]
                  /\ pc' = OnFailure("probe")
                  /\ peer' = Reported(peer)
             ELSE /\ call' = c
                  /\ pc' = IF r.closed THEN "connect" ELSE "send"
                  /\ peer' = peer
    /\ UNCHANGED <<use_http, sock, nsock, nclosed, peerOut, srv, ncalls, req, response, res, prev,
                   codecVars>>

\* mutant: the handle that is replaced is closed first
Closes_Stale(old) == IF old # 0 THEN 1 ELSE 0

\* how many sockets _send closes when it replaces the handle `old`: the
\* assignment drops the old socket object, close() is called nowhere
Closes(old) == 0

\* _make_tcp_socket succeeds: self.sock is the new socket
Connect ==
    /\ pc = "connect"
    /\ nsock' = nsock + 1
    /\ sock' = nsock + 1
    /\ nclosed' = nclosed + Closes(sock)
    /\ peer' = "open" /\ rbuf' = <<>> /\ peerOut' = <<>> /\ srv' = "idle"
    /\ call' = [call EXCEPT !.nconnect = @ + 1]
    /\ pc' = "send"
    /\ UNCHANGED <<use_http, ncalls, req, response, res, prev, codecVars>>

\* mutant: the new socket is stored in self.sock before it is connected
HandleAfterRefused_New(old, new) == new

\* self.sock after _make_tcp_socket raised, `new` being the socket it had
\* created: the assignment of line 147 is not reached
HandleAfterRefused(old, new) == old

\* _make_tcp_socket raises (connection refused): self.sock is not assigned
ConnectFail ==
    /\ pc = "connect"
    /\ call' = [call EXCEPT !.exc = "ConnectionRefusedError", !.at = "connect"]
    /\ pc' = OnFailure("connect")
    /\ sock' = HandleAfterRefused(sock, nsock + 1)
    /\ UNCHANGED <<use_http, nsock, nclosed, peer, rbuf, peerOut, srv, ncalls, req, response,
                   res, prev, codecVars>>

\* self.sock.send(request.encode()): the socket accepts k bytes; the value
\* send returns is not looked at
Send ==
    /\ pc = "send"
    /\ peer \in {"open", "closed"}
    /\ LET bytes == Encode(call.request) IN
       \E k \in SendAccepts(ByteLen(bytes)) :
           call' = [call EXCEPT !.nsend = @ + 1, !.sendSock = sock, !.peerAtSend = peer,
                                !.wire = bytes, !.sent = k]
    /\ srv' = IF peer = "open" THEN "asked" ELSE srv
    /\ pc' = "recv"
    /\ UNCHANGED <<use_http, sock, nsock, nclosed, peer, rbuf, peerOut, ncalls, req, response, res,
                   prev, codecVars>>

\* send raises on a connection the peer has closed or reset
SendFail ==
    /\ pc = "send"
    /\ peer \in {"closed", "reset"}
    /\ call' = [call EXCEPT !.exc = IF peer = "reset" THEN "ConnectionResetError"
                                    ELSE "BrokenPipeError",
                            !.at = "send", !.peerAtSend = peer]
    /\ peer' = Reported(peer)
    /\ pc' = OnFailure("send")
    /\ UNCHANGED <<use_http, sock, nsock, nclosed, rbuf, peerOut, srv, ncalls, req, response, res,
                   prev, codecVars>>

RECURSIVE ChunkLen(_, _)
\* how many units of buf fit in n bytes
ChunkLen(buf, n) ==
    IF buf = <<>> \/ ByteLenU(Head(buf)) > n THEN 0
    ELSE 1 + ChunkLen(Tail(buf), n - ByteLenU(Head(buf)))

\* _recvall: sock.recv(buffer_size) returns a chunk, which is appended
RecvChunk ==
    /\ pc = "recv"
    /\ peer # "reset"
    /\ rbuf # <<>>
    /\ LET n == ChunkLen(rbuf, buffer_size) IN
       /\ call' = [call EXCEPT !.data = @ \o SubSeq(rbuf, 1, n)]
       /\ rbuf' = SubSeq(rbuf, n + 1, Len(rbuf))
    /\ UNCHANGED <<use_http, sock, nsock, nclosed, peer, peerOut, srv, pc, ncalls, req, response, res,
                   prev, codecVars>>

\* mutant: the loop also ends when the peer is open and nothing is buffered
EndOfStream_Idle(p, buf) == p \in {"open", "closed"} /\ buf = <<>>

\* sock.recv(buffer_size) returns b'': the peer has closed and every byte
\* received has been read
EndOfStream(p, buf) == p = "closed" /\ buf = <<>>

\* _recvall: recv returns b'', the loop ends; _recv parses what was
\* accumulated and __call__ returns the Response, or the parse raises
RecvEnd ==
    /\ pc = "recv"
    /\ EndOfStream(peer, rbuf)
    /\ LET p == Parse(use_http, call.data) IN
       IF p.exc # ""
       THEN /\ call' = [call EXCEPT !.exc = p.exc, !.at = "parse"]
            /\ pc' = OnFailure("parse")
            /\ response' = response
       ELSE /\ call' = call
            /\ pc' = "returned"
            /\ response' = p.v
    /\ UNCHANGED <<use_http, netVars, ncalls, req, res, prev, codecVars>>

\* _recvall: recv raises on a reset connection
RecvReset ==
    /\ pc = "recv"
    /\ peer = "reset"
    /\ call' = [call EXCEPT !.exc = "ConnectionResetError", !.at = "recv"]
    /\ peer' = "closed"
    /\ pc' = OnFailure("recv")
    /\ UNCHANGED <<use_http, sock, nsock, nclosed, rbuf, peerOut, srv, ncalls, req, response, res,
                   prev, codecVars>>

\* _recvall: the blocked recv is ended by an exception that leaves the
\* connection as it is (a default socket timeout, KeyboardInterrupt)
RecvInterrupt ==
    /\ pc = "recv"
    /\ peer = "open"
    /\ rbuf = <<>>
    /\ call' = [call EXCEPT !.exc = "TimeoutError", !.at = "recv"]
    /\ pc' = OnFailure("recv")
    /\ UNCHANGED <<use_http, netVars, ncalls, req, response, res, prev, codecVars>>

\* ------------------------------------------------------ the caller's reads
Methods == {"raise_error", "raise_or_get", "as_bytes", "as_numpy", "as_image"}

\* what Response method m does on Response.data = data
Method(m, data) ==
    CASE m = "raise_error" -> raise_error(data)
      [] m = "raise_or_get" -> raise_or_get(data)
      [] m = "as_bytes" -> as_bytes(data)
      [] m = "as_numpy" -> as_numpy(data)
      [] OTHER -> as_image(data)

\* the caller calls a method of the Response it got
Inspect(m) ==
    /\ pc = "returned"
    /\ LET r == Method(m, response) IN
       res' = [method |-> m, exc |-> r.exc, arg |-> r.arg, v |-> r.v]
    /\ UNCHANGED <<use_http, netVars, pc, ncalls, call, req, response, prev, codecVars>>

\* --------------------------------------------------------------- the peer
\* the server answers the request it got
PeerReply(r) ==
    /\ sock # 0 /\ peer = "open" /\ srv = "asked"
    /\ peerOut' = r
    /\ srv' = "replied"
    /\ UNCHANGED <<use_http, sock, nsock, nclosed, peer, rbuf, callVars, codecVars>>

\* k more bytes of the reply arrive
PeerDeliver ==
    /\ sock # 0 /\ peer = "open"
    /\ \E k \in 1..Len(peerOut) :
        /\ rbuf' = rbuf \o SubSeq(peerOut, 1, k)
        /\ peerOut' = SubSeq(peerOut, k + 1, Len(peerOut))
    /\ UNCHANGED <<use_http, sock, nsock, nclosed, peer, srv, callVars, codecVars>>

\* the peer closes its side: end of stream follows what was delivered
PeerClose ==
    /\ sock # 0 /\ peer = "open"
    /\ peer' = "closed"
    /\ peerOut' = <<>>
    /\ UNCHANGED <<use_http, sock, nsock, nclosed, rbuf, srv, callVars, codecVars>>

\* the connection is reset instead of closed. (A reset that follows the
\* peer's close is not seen by recv, which goes on returning b'': it leaves
\* the socket "closed".)
PeerReset ==
    /\ sock # 0 /\ peer = "open"
    /\ peer' = "reset"
    /\ rbuf' = <<>> /\ peerOut' = <<>>
    /\ UNCHANGED <<use_http, sock, nsock, nclosed, srv, callVars, codecVars>>

\* ---------------------------------------------------------- the codec run
\* the byte values the codec is run on: 0, 'A' and 255
ByteSamples == {0, 65, 255}

\* byte buffers, one-dimensional arrays and one-row images of up to MaxBytes
\* elements, the images with and without a format tag
CodecValues ==
    {BytesV(b) : b \in SeqsUpTo(ByteSamples, MaxBytes)}
    \cup {NdV(<<Len(b)>>, b) : b \in SeqsUpTo({0, 255}, MaxBytes)}
    \cup {ImgV(f, <<1, Len(b)>>, b) :
            f \in {"", "PNG", "TIFF"}, b \in SeqsUpTo({0, 255}, MaxBytes) \ {<<>>}}

\* the Response method that decodes values of v's type
DecoderOf(v) ==
    CASE v.t = "ndarray" -> "as_numpy"
      [] v.t = "image" -> "as_image"
      [] OTHER -> "as_bytes"

\* the request side: Request on an envelope with the one parameter x = cv;
\* what its packed envelope holds for x
CodecPack ==
    /\ cpc = "start"
    /\ cpacked' = Request([method |-> <<102>>, params |-> [type |-> "dict", items |-> [x |-> cv]],
                           jsonrpc |-> "2.0", id |-> 1]).packed.params.items.x
    /\ cpc' = "packed"
    /\ UNCHANGED <<use_http, netVars, callVars, cv, cout>>

\* the response side: the packed value comes back as the result and the
\* caller decodes it with the method of the value's type
CodecDecode ==
    /\ cpc = "packed"
    /\ LET m == DecoderOf(cv)
           r == Method(m, [jsonrpc |-> StrV(V20), id |-> IntV(1), result |-> cpacked])
       IN cout' = [method |-> m, exc |-> r.exc, arg |-> r.arg, v |-> r.v]
    /\ cpc' = "decoded"
    /\ UNCHANGED <<use_http, netVars, callVars, cv, cpacked>>

InitCodec ==
    /\ use_http = TRUE
    /\ sock = 0 /\ nsock = 0 /\ nclosed = 0 /\ peer = "none" /\ rbuf = <<>> /\ peerOut = <<>>
    /\ srv = "idle"
    /\ pc = "idle" /\ ncalls = 0 /\ call = NoCall /\ req = NoReq
    /\ response = <<>> /\ res = NoRes
    /\ prev = NoPrev
    /\ cpc = "start" /\ cv \in CodecValues /\ cpacked = NoneV /\ cout = NoRes

NextCodec == CodecPack \/ CodecDecode

\* every codec value packed on the request side and decoded on the response side
SpecCodec == InitCodec /\ [][NextCodec]_vars

\* -------------------------------------------------- a Response on its own
\* the results and the error descriptors of the replies Response is run on
ResultSamples ==
    {IntV(5), StrV(SampleText), StrV(b64encode(<<0, 255>>)), StrV(b64encode(<<>>)),
     StrV(<<65>>), StrV(_pack_numpy(SampleArray)), StrV(_pack_pillow(ImgV("", <<1, 1>>, <<7>>))),
     StrV(b64encode(<<NpyMagic, 9>>))}
ErrorSamples == {StrV(BadParams), IntV(32600), StrV(<<>>)}

Envelope == [jsonrpc |-> StrV(V20), id |-> IntV(1)]

\* replies with a result, with an error, with both and with neither
ResponseSamples ==
    {[jsonrpc |-> StrV(V20), id |-> IntV(1), result |-> r] : r \in ResultSamples}
    \cup {[jsonrpc |-> StrV(V20), id |-> IntV(1), error |-> e] : e \in ErrorSamples}
    \cup {[jsonrpc |-> StrV(V20), id |-> IntV(1), result |-> r, error |-> e] :
            r \in ResultSamples, e \in ErrorSamples}
    \cup {Envelope}

\* Response(data) built on each sample
InitResponse ==
    /\ use_http = TRUE
    /\ sock = 0 /\ nsock = 0 /\ nclosed = 0 /\ peer = "none" /\ rbuf = <<>> /\ peerOut = <<>>
    /\ srv = "idle"
    /\ pc = "returned" /\ ncalls = MaxCalls /\ call = NoCall /\ req = NoReq
    /\ response \in ResponseSamples /\ res = NoRes
    /\ prev = NoPrev
    /\ CodecIdle

NextResponse == \E m \in Methods : Inspect(m)

\* every method of a Response on every sample reply
SpecResponse == InitResponse /\ [][NextResponse]_vars

\* ------------------------------------------------------------ one call
\* the steps of a call after its entry, and the peer's
CallSteps ==
    \/ Probe
    \/ Connect
    \/ ConnectFail
    \/ Send
    \/ SendFail
    \/ RecvChunk
    \/ RecvEnd
    \/ RecvReset
    \/ RecvInterrupt
    \/ \E m \in Methods : Inspect(m)
    \/ PeerDeliver
    \/ PeerClose
    \/ PeerReset

\* the first call of a Client, over every name, argument list and id, through
\* the dispatcher and directly, answered by a server that returns 5
NextRequest ==
    \/ \E name \in Names, args \in ArgsSet, kwargs \in KwargsSet, id \in IdSamples :
          ncalls = 0 /\ Getattr(name, args, kwargs, id)
    \/ \E name \in Names, items \in ArgsSet, id0 \in {0, 7}, id \in IdSamples :
          ncalls = 0 /\ DirectCall(name, "list", items, id0, id)
    \/ \E name \in Names, items \in KwargsSet, id0 \in {0, 7}, id \in IdSamples :
          ncalls = 0 /\ DirectCall(name, "dict", items, id0, id)
    \/ \E r \in SessionReplies(use_http) : PeerReply(r)
    \/ CallSteps

SpecRequest == Init /\ [][NextRequest]_vars

\* the first call of a Client, f(), answered by every reply
NextReply ==
    \/ ncalls = 0 /\ Getattr(<<102>>, <<>>, <<>>, 1)
    \/ \E r \in Replies : PeerReply(r)
    \/ CallSteps

SpecReply == Init /\ [][NextReply]_vars

\* the same, with the client running: a recv that can return, returns (the
\* call is one blocking thread; the peer is free to do nothing)
SpecReplyFair ==
    SpecReply /\ WF_vars(RecvChunk) /\ WF_vars(RecvEnd) /\ WF_vars(RecvReset)

\* the connection life cycle: MaxCalls calls on one Client against a peer
\* that answers, closes and resets as it likes
Next ==
    \/ \E c \in SessionCalls : Getattr(<<102>>, c.args, c.kwargs, 1)
    \/ \E r \in SessionReplies(use_http) : PeerReply(r)
    \/ CallSteps

Spec == Init /\ [][Next]_vars

\* calls on one Client with envelopes the caller built, with and without an
\* id of their own, each call drawing its id, against a server that answers
\* and closes
NextIds ==
    \/ \E id0 \in {0, 7}, id \in IdSamples : DirectCall(<<102>>, "dict", <<>>, id0, id)
    \/ \E r \in SessionReplies(use_http) : PeerReply(r)
    \/ Probe \/ Connect \/ Send \/ RecvChunk \/ RecvEnd
    \/ PeerDeliver \/ PeerClose

SpecIds == Init /\ [][NextIds]_vars

\* ================================================================== claims

\* the previous call sent on the socket this call found in self.sock
HeldFromPrev == prev.sendSock # 0 /\ call.sockBefore = prev.sendSock

\* C1: of two calls in a row on one Client, when the peer is open at the second
\* call's probe the second call sends on the socket the first sent on, without
\* a connect; when the peer has closed by then, the call connects exactly once
\* and sends on the new socket.
C1_ReuseThenReconnect ==
    (call.nsend > 0 /\ HeldFromPrev) =>
        /\ call.probe.peer = "open" =>
              (call.nconnect = 0 /\ call.sendSock = prev.sendSock)
        /\ call.probe.peer = "closed" =>
              (call.nconnect = 1 /\ call.sendSock # prev.sendSock)

\* a call through the dispatcher got positional and keyword arguments at once
Mixed == call.entry = "getattr" /\ call.nargs > 0 /\ call.nkwargs > 0

\* C2: a dispatcher call with both positional and keyword arguments raises
\* before any I/O (no probe, no connect, no send) and leaves self.sock as it
\* was; a call with only positional or only keyword arguments is not rejected.
C2_MixedRejectedBeforeIO ==
    call.entry = "getattr" =>
        /\ Mixed => /\ pc = "raised" /\ call.exc = "AssertionError"
                    /\ call.nprobe = 0 /\ call.nconnect = 0 /\ call.nsend = 0
                    /\ sock = call.sockBefore
        /\ ~Mixed => call.exc # "AssertionError"

\* C2 witness: a mixed call rejected on a Client that holds a socket
C2_Witness ==
    /\ Mixed /\ pc = "raised" /\ call.exc = "AssertionError"
    /\ sock # 0 /\ peer = "open"

\* exactly one of 'result' and 'error' is in the reply
WellFormed(data) == ("result" \in DOMAIN data) # ("error" \in DOMAIN data)

\* C3: on a well-formed reply raise_or_get raises exactly when 'error' is
\* there, and otherwise returns the 'result' value itself.
C3_UnwrapFailsIffError ==
    (pc = "returned" /\ res.method = "raise_or_get" /\ WellFormed(response)) =>
        /\ (res.exc # "") <=> ("error" \in DOMAIN response)
        /\ res.exc = "" => res.v = response.result

\* C3 witness: raise_or_get has returned the result of a well-formed reply
C3_Witness ==
    /\ pc = "returned" /\ res.method = "raise_or_get" /\ WellFormed(response)
    /\ "result" \in DOMAIN response /\ res.exc = "" /\ res.v = StrV(SampleText)

\* the receive loop of the call has seen the end of the stream
ReadToEnd == pc = "returned" \/ (pc = "raised" /\ call.at = "parse")

\* the bytes of a reply that carries the error "bad params", framed for the mode
ErrorReply == IF use_http THEN <<Status, CRLF, CRLF, Doc("EB")>> ELSE <<Doc("EB")>>

\* C4: a reply with an 'error' field makes the call return a Response, not
\* raise; nothing is raised until the caller asks the Response for the result,
\* and each of its methods then raises with the server's descriptor itself.
C4_ErrorRaisedOnDemand ==
    /\ (ReadToEnd /\ call.data = ErrorReply) =>
          (pc = "returned" /\ call.exc = "" /\ response.error = StrV(BadParams))
    /\ (pc = "returned" /\ "error" \in DOMAIN response) =>
          /\ call.exc = ""
          /\ res.method = "" => res.exc = ""
          /\ res.method # "" => (res.exc = "RuntimeError" /\ res.arg = response.error)

\* C4 witness: the call returned on an error reply and as_numpy then raised
\* with "bad params"
C4_Witness ==
    /\ pc = "returned" /\ call.data = ErrorReply /\ use_http
    /\ res.method = "as_numpy" /\ res.exc = "RuntimeError" /\ res.arg = StrV(BadParams)

\* the header block is the first three units of an HTTP request: the lines up
\* to "Content-Length: ", the number, and the lines up to the blank line
HeaderUnits == Len(http_template(0))

\* C5: in HTTP mode the number written after Content-Length is the number of
\* bytes of the JSON body sent after the blank line.
C5_ContentLengthIsBodyBytes ==
    (use_http /\ call.nsend > 0) =>
        /\ Len(call.wire) > HeaderUnits
        /\ call.wire[2].k = "num"
        /\ call.wire[2].n = ByteLen(SubSeq(call.wire, HeaderUnits + 1, Len(call.wire)))

\* C5 witness: an HTTP request was sent whose method name and parameter hold
\* characters outside ASCII
C5_Witness ==
    /\ use_http /\ call.nsend > 0 /\ call.name = <<233>>
    /\ call.orig.type = "dict" /\ call.nkwargs = 1
    /\ call.orig.items["x"] = StrV(SampleText)

AfterSeparator(b) == SubSeq(b, Index(b, Separator) + Len(Separator), Len(b))

\* C7: in HTTP mode the call returns the JSON decoding of what follows the
\* first blank line of the accumulated bytes (and raises when that is no
\* JSON); on the reply 'HTTP/1.1 200 OK ... \r\n\r\n{... "result": 5}'
\* raise_or_get gives 5.
C7_BodyAfterFirstSeparator ==
    (use_http /\ ReadToEnd /\ Index(call.data, Separator) # 0) =>
        LET body == json_loads(AfterSeparator(call.data)) IN
        /\ (pc = "returned") <=> (body.exc = "")
        /\ pc = "returned" => response = body.v
        /\ (call.data = <<Status, CRLF, Header, CRLF, CRLF, Doc("R5")>>
            /\ res.method = "raise_or_get") => (res.exc = "" /\ res.v = IntV(5))

\* C7 witness: the head was dropped and raise_or_get gave 5
C7_Witness ==
    /\ use_http /\ pc = "returned"
    /\ call.data = <<Status, CRLF, Header, CRLF, CRLF, Doc("R5")>>
    /\ res.method = "raise_or_get" /\ res.v = IntV(5)

\* a Request was built in the current call
Built == call.entry # "" /\ req.data # <<>>

\* a structured binary value: a byte buffer, an array or an image
IsBinary(v) == v.t \in {"bytes", "ndarray", "image"}

\* C8: once a Request is built, Request.data and the caller's own params hold
\* the values as passed, and only Request.packed holds the encoded text.
C8_OriginalKeepsValues ==
    Built =>
        /\ req.data.params = call.orig
        /\ call.callerParams = call.orig
        /\ \A k \in DOMAIN call.orig.items :
              (IsArray(call.orig.items[k]) \/ IsImage(call.orig.items[k]))
                  => req.packed.params.items[k].t = "str"

\* the base64 text of a structured binary value
Encoded(v) ==
    IF v.t = "bytes" THEN StrV(b64encode(v.b))
    ELSE IF v.t = "ndarray" THEN StrV(_pack_numpy(v))
    ELSE StrV(_pack_pillow(v))

\* C9: pack does not raise, and in the packed envelope every byte buffer,
\* array and image is its base64 text and every other value is as passed, for
\* keyword params and for the positional params of the dispatcher.
C9_PackEncodesEveryBinary ==
    (call.entry = "getattr" /\ ~Mixed) =>
        /\ call.at # "pack"
        /\ Built =>
              \A k \in DOMAIN call.orig.items :
                  req.packed.params.items[k] =
                      IF IsBinary(call.orig.items[k]) THEN Encoded(call.orig.items[k])
                      ELSE call.orig.items[k]

\* v, with the format an image read back carries when v had none
Normalised(v) == IF v.t = "image" /\ v.format = "" THEN [v EXCEPT !.format = "TIFF"] ELSE v

\* C10: what the request side makes of a byte buffer, an array or an image
\* decodes, with the Response method of its type, to an equal value (an image
\* without a format comes back as TIFF).
C10_RoundTrip ==
    cpc = "decoded" => (cout.exc = "" /\ cout.v = Normalised(cv))

\* the call has raised at one of the steps in S
RaisedAt(S) == pc = "raised" /\ call.at \in S

\* C11: a call probes, connects and sends at most once each, connects before
\* it sends and sends before it receives; a call that returned has sent once
\* and returns the parse of all it received; a call that raised at a step has made no
\* connect and no send after it.
C11_OneRoundTripNoRetry ==
    /\ call.nprobe <= 1 /\ call.nconnect <= 1 /\ call.nsend <= 1
    /\ pc \in {"probe", "connect", "send"} => (call.nsend = 0 /\ call.data = <<>>)
    /\ pc = "probe" => (call.nprobe = 0 /\ call.nconnect = 0)
    /\ pc = "connect" => call.nconnect = 0
    /\ pc \in {"recv", "returned"} => (call.nprobe = 1 /\ call.nsend = 1)
    /\ pc = "returned" => (call.exc = "" /\ response = Parse(use_http, call.data).v)
    /\ RaisedAt({"assert", "pack", "dumps"}) =>
          (call.nprobe = 0 /\ call.nconnect = 0 /\ call.nsend = 0)
    /\ RaisedAt({"probe", "connect"}) => (call.nconnect = 0 /\ call.nsend = 0)
    /\ RaisedAt({"send"}) => call.nsend = 0
    /\ RaisedAt({"recv", "parse"}) => call.nsend = 1

\* C11 witness: the send on a socket connected in this call raised, and the
\* call ended there
C11_Witness ==
    /\ RaisedAt({"send"}) /\ call.nconnect = 1 /\ call.nsend = 0 /\ ncalls = 1

\* C12: every call draws its id in 1..65536; the envelope that is serialized
\* and the bytes that are sent carry that id, whatever id the passed envelope
\* carried. (Two calls may draw the same id: the witness.)
C12_FreshIdInRange ==
    (call.entry # "" /\ call.at # "assert") =>
        /\ call.id \in 1..MaxId
        /\ Built => req.packed.id = call.id
        /\ call.nsend > 0 =>
              (Len(call.wire) > 1 /\ call.wire[Len(call.wire) - 1] = Num(call.id))

\* C12 witness: the second of two calls sent an envelope that came with the
\* id 7, under the id it drew, which is the id the call before it drew
C12_Witness ==
    /\ ncalls >= 2 /\ call.nsend > 0 /\ call.passedId = 7
    /\ call.id = prev.id /\ call.wire[Len(call.wire) - 1] = Num(call.id)

\* C13: a call that sends has probed once before, the peer of the socket it
\* sends on has not closed when it sends, and when the peer of the held socket
\* had closed by the probe the send goes to a socket connected in this call.
C13_NoWriteToClosedPeer ==
    call.nsend > 0 =>
        /\ call.nprobe = 1
        /\ call.peerAtSend # "closed"
        /\ (call.sockBefore # 0 /\ call.probe.peer = "closed") =>
              (call.nconnect = 1 /\ call.sendSock # call.sockBefore)

\* the text json.dumps gave for the envelope of the current call
Body == json_dumps(req.packed).text

\* C14: a call that sends puts the whole framed request on the wire, however
\* many bytes a send accepts: in raw mode the JSON text of the envelope and
\* nothing else, in HTTP mode the header block, the blank line and the whole
\* JSON body with nothing after it.
C14_WholeRequestOnWire ==
    call.nsend > 0 =>
        /\ call.request = IF use_http THEN http_template(StrLen(Body)) \o Body ELSE Body
        /\ call.wire = Encode(call.request)
        /\ call.sent = ByteLen(call.wire)

\* the call is in the receive loop
Receiving == pc = "recv"

\* C15: a call in its receive loop returns only on a read of zero bytes (the
\* peer has closed and all bytes are read); while the peer is open the call
\* leaves the loop only by an error raised in recv; and once the peer has
\* closed or the connection has failed the call returns or raises.
C15_BlocksUntilEndOfStream ==
    /\ [][(Receiving /\ pc' = "returned") => (peer = "closed" /\ rbuf = <<>>)]_vars
    /\ [][(Receiving /\ peer = "open" /\ pc' # "recv")
            => (pc' = "raised" /\ call'.at = "recv")]_vars
    /\ ((Receiving /\ peer \in {"closed", "reset"}) ~> (pc \in {"returned", "raised"}))

\* C15 witness: the whole reply has been received on a connection the peer
\* keeps open, and the call is still in its receive loop
C15_Witness ==
    /\ Receiving /\ peer = "open" /\ rbuf = <<>> /\ peerOut = <<>> /\ srv = "replied"
    /\ call.data = <<Status, CRLF, Header, CRLF, CRLF, Doc("R5")>>

\* the call read to the end of the stream and raised in _recv's parse with exc
ParseRaised(exc) ==
    /\ pc = "raised" /\ call.at = "parse" /\ call.exc = exc /\ response = <<>>

\* C16 as claimed: in HTTP mode accumulated bytes without the blank line make
\* the call raise the framing error and return no Response; no bytes at all
\* make the call raise a JSON parse error, in raw mode and in HTTP mode.
C16_EmptyIsJsonFailure ==
    ReadToEnd =>
        /\ (use_http /\ Index(call.data, Separator) = 0 /\ call.data # <<>>)
              => ParseRaised("ValueError")
        /\ call.data = <<>> => ParseRaised("JSONDecodeError")

\* C16 as amended: in HTTP mode accumulated bytes without the blank line,
\* none at all included, make the call raise the framing error (the ValueError
\* of bytes.index) and return no Response; in raw mode no bytes at all make
\* the call raise a JSON parse error.
C16_NoSeparatorOrEmptyRaises ==
    ReadToEnd =>
        /\ (use_http /\ Index(call.data, Separator) = 0) => ParseRaised("ValueError")
        /\ (~use_http /\ call.data = <<>>) => ParseRaised("JSONDecodeError")

\* C16 witness: in HTTP mode the peer closed without a byte and the call
\* raised the framing error
C16_Witness == use_http /\ ReadToEnd /\ call.data = <<>> /\ ParseRaised("ValueError")

\* C17: a probe that meets a connection error raises it to the caller: the
\* call ends there with that error, having connected and sent nothing, and
\* self.sock is the socket it was before the call.
C17_ProbeErrorPropagates ==
    /\ (call.nprobe > 0 /\ call.probe.peer = "reset") =>
          (RaisedAt({"probe"}) /\ call.exc = "ConnectionResetError")
    /\ RaisedAt({"probe"}) =>
          /\ call.probe.peer = "reset" /\ ~call.probe.closed
          /\ call.nconnect = 0 /\ call.nsend = 0
          /\ sock = call.sockBefore /\ sock # 0

\* C17 witness: the probe of a call on a held socket raised the reset
C17_Witness ==
    /\ RaisedAt({"probe"}) /\ call.exc = "ConnectionResetError"
    /\ ncalls >= 2 /\ sock = call.sockBefore /\ call.sockBefore = prev.sendSock

\* C18: a Client starts without a socket; self.sock changes only in a call
\* whose probe reported closed, to the socket that call connected; no socket
\* is ever closed, a replaced one neither, so the sockets open on the client
\* side are those of its successful connects and the last of them is held.
C18_NeverClosesHandle ==
    /\ sock = 0
    /\ [](nclosed = 0 /\ sock = nsock)
    /\ [][sock' # sock =>
            (pc = "connect" /\ call.probe.closed /\ sock' = nsock' /\ sock' \notin 0..nsock)]_vars
    /\ [][ncalls' = ncalls => nsock' - nsock = call'.nconnect - call.nconnect]_vars

\* C18 witness: a call replaced the socket an earlier call had connected
C18_Witness == nsock = 2 /\ sock = 2 /\ nclosed = 0 /\ call.sockBefore = 1 /\ call.nconnect = 1

\* the socket this call found in self.sock is one on which an earlier call
\* read to the end of the stream
HeldAtEof == call.sockBefore # 0 /\ call.sockBefore = prev.eofSock

\* C19: a call that finds in self.sock a socket on which a call read to the
\* end of the stream does not send on it: its probe reports closed and it
\* sends only on a socket it connected; so a call that follows a call that
\* returned, and gets past its probe, makes a connect.
C19_NoReuseAfterReturn ==
    /\ (call.nprobe > 0 /\ HeldAtEof) =>
          /\ call.probe.closed /\ ~RaisedAt({"probe"})
          /\ call.nsend > 0 => (call.nconnect = 1 /\ call.sendSock # call.sockBefore)
    /\ (call.entry # "" /\ prev.ended = "returned") =>
          /\ HeldAtEof
          /\ (pc \in {"send", "recv", "returned"} \/ RaisedAt({"send", "recv", "parse"}))
                => call.nconnect = 1

\* C19 witness: the call after a call that returned has connected anew and
\* sent on the new socket
C19_Witness ==
    /\ prev.ended = "returned" /\ HeldAtEof /\ call.probe.closed
    /\ call.nconnect = 1 /\ call.nsend = 1 /\ call.sendSock = call.sockBefore + 1

\* C20: a call that raised while packing or serializing has not probed,
\* connected or sent; a call whose connect raised has not sent; in both cases
\* self.sock is the socket it was before the call.
C20_EarlyFailureKeepsHandle ==
    /\ call.at \in {"pack", "dumps"} =>
          /\ pc = "raised" /\ call.exc = "TypeError"
          /\ call.nprobe = 0 /\ call.nconnect = 0 /\ call.nsend = 0
          /\ sock = call.sockBefore
    /\ call.at = "connect" =>
          /\ pc = "raised" /\ call.nprobe = 1 /\ call.nconnect = 0 /\ call.nsend = 0
          /\ sock = call.sockBefore

\* C20 witness: on a Client that holds a socket a connect was refused, and
\* the Client holds that socket still
C20_Witness ==
    /\ RaisedAt({"connect"}) /\ call.sockBefore # 0 /\ sock = call.sockBefore
    /\ call.probe.closed /\ call.nsend = 0
====
